---- MODULE Spec2Model ----
(***************************************************************************)
(* envoke-rs: resolution of record fields, records and enums from the      *)
(* process environment and an optional dotenv fallback map, as generated   *)
(* by the derive macro (envoke_derive/src/derive) and executed by the      *)
(* runtime loaders (envoke/src/utils.rs, load.rs, load_opt.rs).            *)
(*                                                                         *)
(* Strings are sequences of one-character strings, so that trimming,       *)
(* splitting, parsing and case conversion are computed, not assumed.       *)
(***************************************************************************)
EXTENDS Integers, Sequences, FiniteSets, TLC

VARIABLES c_attrs, field, env, fallback, pc, envs, loaded, value, result, calls,
          record, mode, parser

vars == <<c_attrs, field, env, fallback, pc, envs, loaded, value, result, calls,
          record, mode, parser>>

------------------------------------------------------------------------------
(* Bounds *)

\* longest list of `env` attributes on one field
MaxKeys == 2

\* longest raw string handed to parse_map and parse_set
MaxLen == 7

\* most fields of one record
MaxFields == 2

\* most `delimiter` attributes written on one field
MaxMetas == 2

\* most calls of try_envoke on one record
MaxRuns == 2

\* longest raw value held by a source
MaxRaw == 3

------------------------------------------------------------------------------
(* Option / Result *)

None == [some |-> FALSE]

Some(x) == [some |-> TRUE, v |-> x]

Ok(x) == [ok |-> TRUE, val |-> x]

Err(e) == [ok |-> FALSE, err |-> e]

------------------------------------------------------------------------------
(* Strings *)

IsWhitespace(c) == c = " "

RECURSIVE TrimStart(_)
TrimStart(s) ==
    IF s # <<>> /\ IsWhitespace(Head(s)) THEN TrimStart(Tail(s)) ELSE s

RECURSIVE TrimEnd(_)
TrimEnd(s) ==
    IF s # <<>> /\ IsWhitespace(s[Len(s)]) THEN TrimEnd(SubSeq(s, 1, Len(s) - 1)) ELSE s

\* str::trim
Trim(s) == TrimEnd(TrimStart(s))

StartsWith(s, d) == Len(d) <= Len(s) /\ SubSeq(s, 1, Len(d)) = d

\* index of the first occurrence of the non-empty pattern d in s, 0 if none
RECURSIVE FindFrom(_, _, _)
FindFrom(s, d, i) ==
    IF i + Len(d) - 1 > Len(s) THEN 0
    ELSE IF SubSeq(s, i, i + Len(d) - 1) = d THEN i
    ELSE FindFrom(s, d, i + 1)

Find(s, d) == FindFrom(s, d, 1)

\* str::split(delim): the segments between the occurrences of delim; never empty
RECURSIVE Split(_, _)
Split(s, d) ==
    LET i == Find(s, d) IN
    IF i = 0 THEN <<s>>
    ELSE <<SubSeq(s, 1, i - 1)>> \o Split(SubSeq(s, i + Len(d), Len(s)), d)

\* str::splitn(2, delim): at most two segments, split at the first occurrence
SplitN2(s, d) ==
    LET i == Find(s, d) IN
    IF i = 0 THEN <<s>>
    ELSE <<SubSeq(s, 1, i - 1), SubSeq(s, i + Len(d), Len(s))>>

Digits == {"0", "1", "2", "3", "4", "5", "6", "7", "8", "9"}

DigitVal(c) ==
    CASE c = "0" -> 0 [] c = "1" -> 1 [] c = "2" -> 2 [] c = "3" -> 3 [] c = "4" -> 4
      [] c = "5" -> 5 [] c = "6" -> 6 [] c = "7" -> 7 [] c = "8" -> 8 [] c = "9" -> 9

RECURSIVE Decimal(_)
Decimal(s) == IF s = <<>> THEN 0 ELSE Decimal(SubSeq(s, 1, Len(s) - 1)) * 10 + DigitVal(s[Len(s)])

\* <u64 as FromStr>::from_str: a non-empty run of decimal digits
ParseU64(s) ==
    IF s # <<>> /\ \A i \in 1..Len(s) : s[i] \in Digits THEN Ok(Decimal(s)) ELSE Err("ParseIntError")

\* <String as FromStr>::from_str never fails
ParseString(s) == Ok(s)

\* T::from_str for the scalar target type ty
FromStr(ty, s) == IF ty = "String" THEN ParseString(s) ELSE ParseU64(s)

------------------------------------------------------------------------------
(* Errors (envoke/src/errors.rs) *)

NotFound(keys) == [kind |-> "RetrieveError", variant |-> "NotFound", keys |-> keys]

InvalidUnicode(key) == [kind |-> "RetrieveError", variant |-> "InvalidUnicode", key |-> key]

MissingKey == [kind |-> "ParseError", variant |-> "MissingKey"]

MissingValue == [kind |-> "ParseError", variant |-> "MissingValue"]

UnexpectedKeyType(key) == [kind |-> "ParseError", variant |-> "UnexpectedKeyType", key |-> key]

UnexpectedValueType(v) == [kind |-> "ParseError", variant |-> "UnexpectedValueType", value |-> v]

ValidationError(f, hook) == [kind |-> "ValidationError", field |-> f, err |-> hook]

------------------------------------------------------------------------------
(* Sources *)

\* outcome of std::env::var(key) on the process environment
EnvVar(key) == IF key \in DOMAIN env THEN env[key] ELSE [st |-> "NotPresent"]

\* a value together with the source, key and raw string it was read from
OkFrom(x, source, key, raw) == [ok |-> TRUE, val |-> x, source |-> source, key |-> key, raw |-> raw]

\* only the first key is listed
JoinKeys_first_only(keys) ==
    IF keys = <<>> THEN <<>> ELSE <<"'">> \o Head(keys) \o <<"'">>

\* keys.map(|e| format!("`{}`", e)).join(", "); "'" stands for the backtick
RECURSIVE JoinKeys(_)
JoinKeys(keys) ==
    IF keys = <<>> THEN <<>>
    ELSE <<"'">> \o Head(keys) \o <<"'">>
         \o (IF Len(keys) > 1 THEN <<",", " ">> ELSE <<>>) \o JoinKeys(Tail(keys))

\* Ok(None): nothing was read from any source
OkNone == OkFrom(None, "none", <<>>, <<>>)

\* utils::load_once, the loop from key number i on
RECURSIVE load_once_from(_, _, _)
load_once_from(ty, keys, i) ==
    IF i > Len(keys) THEN Err(NotFound(JoinKeys(keys)))
    ELSE LET key == Trim(keys[i])
             r   == EnvVar(key)
         IN  IF r.st = "NotPresent" THEN load_once_from(ty, keys, i + 1)
             ELSE IF r.st = "NotUnicode" THEN Err(InvalidUnicode(key))
             ELSE LET p == FromStr(ty, Trim(r.v))
                  IN  IF p.ok THEN OkFrom(p.val, "env", key, r.v)
                      ELSE Err(UnexpectedValueType(r.v))

\* reversed scan: the last declared key is tried first
RECURSIVE Reverse(_)
Reverse(l) == IF l = <<>> THEN <<>> ELSE Append(Reverse(Tail(l)), Head(l))

load_once_last_first(ty, keys) == load_once_from(ty, Reverse(keys), 1)

load_once(ty, keys) == load_once_from(ty, keys, 1)

\* utils::parse_str: no trimming
parse_str(ty, s) ==
    LET p == FromStr(ty, s) IN IF p.ok THEN Ok(p.val) ELSE Err(UnexpectedValueType(s))

\* one `key=value` segment of parse_map::<K, V, M>, K of type kty and V of type vty
parse_pair(kty, vty, part) ==
    LET parts == SplitN2(part, <<"=">>)
        key   == Trim(parts[1])
    IN  IF Len(parts) < 2 THEN Err(MissingValue)
        ELSE LET val == Trim(parts[2])
             IN  IF key = <<>> THEN Err(MissingKey)
                 ELSE IF val = <<>> THEN Err(MissingValue)
                 ELSE IF ~FromStr(kty, key).ok THEN Err(UnexpectedKeyType(key))
                 ELSE IF ~FromStr(vty, val).ok THEN Err(UnexpectedValueType(val))
                 ELSE Ok(<<FromStr(kty, key).val, FromStr(vty, val).val>>)

\* a duplicate key keeps its first value
RECURSIVE collect_map_keep_first(_, _, _, _)
collect_map_keep_first(kty, vty, parts, acc) ==
    IF parts = <<>> THEN Ok(acc)
    ELSE LET r == parse_pair(kty, vty, Head(parts))
         IN  IF ~r.ok THEN r
             ELSE collect_map_keep_first(kty, vty, Tail(parts),
                    [k \in DOMAIN acc \cup {r.val[1]} |-> IF k \in DOMAIN acc THEN acc[k] ELSE r.val[2]])

\* collect::<Result<HashMap<K, V>, _>>: first error wins, later duplicates overwrite
RECURSIVE collect_map(_, _, _, _)
collect_map(kty, vty, parts, acc) ==
    IF parts = <<>> THEN Ok(acc)
    ELSE LET r == parse_pair(kty, vty, Head(parts))
         IN  IF ~r.ok THEN r
             ELSE collect_map(kty, vty, Tail(parts),
                    [k \in DOMAIN acc \cup {r.val[1]} |-> IF k = r.val[1] THEN r.val[2] ELSE acc[k]])

\* utils::parse_map::<K, V, HashMap<K, V>>
parse_map(kty, vty, pairs, delim) == collect_map(kty, vty, Split(Trim(pairs), delim), <<>>)

\* one element of parse_set
parse_elem(part) ==
    LET val == Trim(part)
    IN  IF val = <<>> THEN Err(MissingValue)
        ELSE IF ~ParseU64(val).ok THEN Err(UnexpectedValueType(val))
        ELSE Ok(ParseU64(val).val)

\* empty elements are skipped instead of rejected
RECURSIVE collect_vec_skip_empty(_, _)
collect_vec_skip_empty(parts, acc) ==
    IF parts = <<>> THEN Ok(acc)
    ELSE IF Trim(Head(parts)) = <<>> THEN collect_vec_skip_empty(Tail(parts), acc)
    ELSE LET r == parse_elem(Head(parts))
         IN  IF ~r.ok THEN r ELSE collect_vec_skip_empty(Tail(parts), Append(acc, r.val))

\* collect::<Result<Vec<u64>, _>>
RECURSIVE collect_vec(_, _)
collect_vec(parts, acc) ==
    IF parts = <<>> THEN Ok(acc)
    ELSE LET r == parse_elem(Head(parts))
         IN  IF ~r.ok THEN r ELSE collect_vec(Tail(parts), Append(acc, r.val))

\* utils::parse_set::<S, u64>, S = Vec<u64> ("vec") or HashSet<u64> ("set")
parse_set(ty, sequence, delim) ==
    LET r == collect_vec(Split(Trim(sequence), delim), <<>>)
    IN  IF ~r.ok THEN r
        ELSE IF ty = "vec" THEN Ok(r.val)
        ELSE Ok({r.val[i] : i \in DOMAIN r.val})

\* fallback.and_then(|f| envs.iter().find_map(|e| f.get(e.as_ref())))
RECURSIVE find_map_from(_, _, _)
find_map_from(f, keys, i) ==
    IF i > Len(keys) THEN None
    ELSE IF keys[i] \in DOMAIN f THEN Some([key |-> keys[i], raw |-> f[keys[i]]])
    ELSE find_map_from(f, keys, i + 1)

fallback_find(fb, keys) == IF fb.some THEN find_map_from(fb.v, keys, 1) ELSE None

------------------------------------------------------------------------------
(* Loaders *)

\* <Envloader<T> as Envload<T>>::load_once, T a scalar (load.rs)
Envloader_load_once(ty, keys) == load_once(ty, keys)

\* OptEnvloader::<Option<V>>::load_once, V a scalar (load_opt.rs)
OptEnvloader_load_once(ty, keys, fb) ==
    LET r == load_once(ty, keys)
    IN  IF r.ok THEN OkFrom(Some(r.val), r.source, r.key, r.raw)
        ELSE LET hit == fallback_find(fb, keys)
             IN  IF ~hit.some THEN OkNone
                 ELSE LET p == parse_str(ty, hit.v.raw)
                      IN  IF p.ok THEN OkFrom(Some(p.val), "fallback", hit.v.key, hit.v.raw)
                          ELSE Err(r.err)

\* the raw string the optional collection loaders parse: environment, else fallback
opt_collection_raw(keys, fb) ==
    LET r == load_once("String", keys)
    IN  IF r.ok THEN OkFrom(Some(r.val), r.source, r.key, r.raw)
        ELSE LET hit == fallback_find(fb, keys)
             IN  IF hit.some THEN OkFrom(Some(hit.v.raw), "fallback", hit.v.key, hit.v.raw)
                 ELSE OkNone

\* <OptEnvloader<Option<M>> as FromMapOpt>::load_once (load_opt.rs)
FromMapOpt_load_once(keys, delim, fb) ==
    LET r == opt_collection_raw(keys, fb)
    IN  IF ~r.val.some THEN OkNone
        ELSE LET m == parse_map("String", "u64", r.val.v, delim)
             IN  IF m.ok THEN OkFrom(Some(m.val), r.source, r.key, r.raw) ELSE Err(m.err)

\* <OptEnvloader<Option<S>> as FromSetOpt>::load_once (load_opt.rs)
FromSetOpt_load_once(ty, keys, delim, fb) ==
    LET r == opt_collection_raw(keys, fb)
    IN  IF ~r.val.some THEN OkNone
        ELSE LET m == parse_set(ty, r.val.v, delim)
             IN  IF m.ok THEN OkFrom(Some(m.val), r.source, r.key, r.raw) ELSE Err(m.err)

IsScalar(ty) == ty \in {"u64", "String"}

\* the loader call the derive macro emits for a field of intermediate type ty
base_call(f, keys, fb) ==
    LET delim == IF f.delimiter.some THEN f.delimiter.v ELSE <<",">>
    IN  IF ~f.optional THEN Envloader_load_once(f.ty, keys)
        ELSE IF IsScalar(f.ty) THEN OptEnvloader_load_once(f.ty, keys, fb)
        ELSE IF f.ty = "map" THEN FromMapOpt_load_once(keys, delim, fb)
        ELSE FromSetOpt_load_once(f.ty, keys, delim, fb)

------------------------------------------------------------------------------
(* Naming (envoke_derive: derive/common.rs, derive/structs/attrs.rs) *)

LowerLetters == <<"a", "b", "c", "d", "e", "f", "g", "h", "i", "j", "k", "l", "m",
                  "n", "o", "p", "q", "r", "s", "t", "u", "v", "w", "x", "y", "z">>

UpperLetters == <<"A", "B", "C", "D", "E", "F", "G", "H", "I", "J", "K", "L", "M",
                  "N", "O", "P", "Q", "R", "S", "T", "U", "V", "W", "X", "Y", "Z">>

IsLower(c) == \E i \in DOMAIN LowerLetters : LowerLetters[i] = c

IsUpper(c) == \E i \in DOMAIN UpperLetters : UpperLetters[i] = c

IsDigit(c) == c \in Digits

UpperChar(c) ==
    IF IsLower(c) THEN UpperLetters[CHOOSE i \in DOMAIN LowerLetters : LowerLetters[i] = c] ELSE c

LowerChar(c) ==
    IF IsUpper(c) THEN LowerLetters[CHOOSE i \in DOMAIN UpperLetters : UpperLetters[i] = c] ELSE c

\* str::to_uppercase
to_uppercase(s) == [i \in DOMAIN s |-> UpperChar(s[i])]

\* str::to_lowercase
to_lowercase(s) == [i \in DOMAIN s |-> LowerChar(s[i])]

IsWordDelim(c) == c \in {"_", "-", " "}

\* convert_case's default boundaries between s[i] and s[i+1]
IsBoundary(s, i) ==
    \/ IsLower(s[i]) /\ IsUpper(s[i + 1])
    \/ IsLower(s[i]) /\ IsDigit(s[i + 1])
    \/ IsUpper(s[i]) /\ IsDigit(s[i + 1])
    \/ IsDigit(s[i]) /\ IsLower(s[i + 1])
    \/ IsDigit(s[i]) /\ IsUpper(s[i + 1])
    \/ i + 2 <= Len(s) /\ IsUpper(s[i]) /\ IsUpper(s[i + 1]) /\ IsLower(s[i + 2])

\* convert_case word splitting: cur is the word being built from position i on
RECURSIVE WordsFrom(_, _, _)
WordsFrom(s, i, cur) ==
    LET flush == IF cur = <<>> THEN <<>> ELSE <<cur>>
    IN  IF i > Len(s) THEN flush
        ELSE IF IsWordDelim(s[i]) THEN flush \o WordsFrom(s, i + 1, <<>>)
        ELSE IF i < Len(s) /\ ~IsWordDelim(s[i + 1]) /\ IsBoundary(s, i)
             THEN <<Append(cur, s[i])>> \o WordsFrom(s, i + 1, <<>>)
        ELSE WordsFrom(s, i + 1, Append(cur, s[i]))

Words(s) == WordsFrom(s, 1, <<>>)

Capitalize(w) == [i \in DOMAIN w |-> IF i = 1 THEN UpperChar(w[i]) ELSE LowerChar(w[i])]

RECURSIVE JoinWords(_, _)
JoinWords(ws, sep) ==
    IF ws = <<>> THEN <<>>
    ELSE IF Len(ws) = 1 THEN ws[1]
    ELSE ws[1] \o sep \o JoinWords(Tail(ws), sep)

\* Case::rename
Case_rename(case, s) ==
    LET ws == Words(s)
    IN  CASE case = "Lower" -> to_lowercase(s)
          [] case = "Upper" -> to_uppercase(s)
          [] case = "Pascal" -> JoinWords([i \in DOMAIN ws |-> Capitalize(ws[i])], <<>>)
          [] case = "Camel" ->
               JoinWords([i \in DOMAIN ws |-> IF i = 1 THEN to_lowercase(ws[i]) ELSE Capitalize(ws[i])], <<>>)
          [] case = "Snake" -> JoinWords([i \in DOMAIN ws |-> to_lowercase(ws[i])], <<"_">>)
          [] case = "ScreamingSnake" -> JoinWords([i \in DOMAIN ws |-> to_uppercase(ws[i])], <<"_">>)
          [] case = "Kebab" -> JoinWords([i \in DOMAIN ws |-> to_lowercase(ws[i])], <<"-">>)
          [] case = "ScreamingKebab" -> JoinWords([i \in DOMAIN ws |-> to_uppercase(ws[i])], <<"-">>)

\* Option<String>::as_deref().unwrap_or_default()
unwrap_or_default(o) == IF o.some THEN o.v ELSE <<>>

get_prefix(c) == unwrap_or_default(c.prefix)

get_suffix(c) == unwrap_or_default(c.suffix)

get_delimiter(c) == unwrap_or_default(c.delimiter)

\* the case style converts the declared name only, not the composed key
rename_case_on_name(c, original, no_prefix, no_suffix) ==
    LET delim  == get_delimiter(c)
        prefix == IF ~no_prefix THEN get_prefix(c) \o delim ELSE <<>>
        suffix == IF ~no_suffix THEN delim \o get_suffix(c) ELSE <<>>
    IN  prefix
          \o (IF c.rename_all.some THEN Case_rename(c.rename_all.v, original) ELSE original)
          \o suffix

\* ContainerAttributes::rename
rename(c, original, no_prefix, no_suffix) ==
    LET delim   == get_delimiter(c)
        prefix  == IF ~no_prefix THEN get_prefix(c) \o delim ELSE <<>>
        suffix  == IF ~no_suffix THEN delim \o get_suffix(c) ELSE <<>>
        renamed == prefix \o original \o suffix
    IN  IF c.rename_all.some THEN Case_rename(c.rename_all.v, renamed) ELSE renamed

------------------------------------------------------------------------------
(* User hooks, as in the tests (modules/tests/src/lib.rs) *)

\* fn above_zero(secs: &u64) / its Option<u64> form: None is accepted
above_zero(v, optional) == IF optional THEN (v.some => v.v > 0) ELSE v > 0

\* fn more_than_ten(amount: &u64) / more_than_ten_opt
more_than_ten(v, optional) == IF optional THEN (v.some => ~(v.v < 10)) ELSE v > 10

\* fn add_ten(amount: u64) -> u64 / add_ten_opt
add_ten(v, optional) == IF optional THEN (IF v.some THEN Some(v.v + 10) ELSE None) ELSE v + 10

------------------------------------------------------------------------------
(* Defaults *)

\* <T as Default>::default()
TypeDefault(ty) ==
    CASE ty = "u64" -> 0
      [] ty = "String" -> <<>>
      [] ty = "map" -> <<>>
      [] ty = "set" -> {}
      [] ty = "vec" -> <<>>

\* the value a `default = <literal | path | call>` attribute denotes for type ty
DeclaredDefault(ty) ==
    CASE ty = "u64" -> 30
      [] ty = "String" -> <<"d">>
      [] ty = "map" -> [k \in {<<"d">>} |-> 1]
      [] ty = "set" -> {1}
      [] ty = "vec" -> <<1>>

\* generate_default_call: the expression evaluated for the field's default
default_call(f) ==
    IF f.default = "Type" THEN (IF f.optional THEN None ELSE TypeDefault(f.ty))
    ELSE IF f.optional THEN Some(DeclaredDefault(f.ty)) ELSE DeclaredDefault(f.ty)

------------------------------------------------------------------------------
(* Field attributes (envoke_derive/src/derive/structs/attrs.rs) *)

\* the reserved pair separator "=" is accepted as a delimiter
set_delimiter_reserved_allowed(delimiter, lit) ==
    IF delimiter.some THEN Err("duplicate_attribute")
    ELSE IF lit = <<>> THEN Err("invalid_attribute")
    ELSE Ok(Some(lit))

\* FieldAttributes::set_delimiter for the attribute `delimiter = lit`
set_delimiter(delimiter, lit) ==
    IF delimiter.some THEN Err("duplicate_attribute")
    ELSE IF lit = <<"=">> THEN Err("invalid_attribute")
    ELSE IF lit = <<>> THEN Err("invalid_attribute")
    ELSE Ok(Some(lit))

\* FieldAttributes::try_from: the `delimiter` attributes of the field, in the order written
RECURSIVE parse_nested_meta(_, _)
parse_nested_meta(metas, delimiter) ==
    IF metas = <<>> THEN Ok(delimiter)
    ELSE LET r == set_delimiter(delimiter, Head(metas))
         IN  IF ~r.ok THEN r ELSE parse_nested_meta(Tail(metas), r.val)

------------------------------------------------------------------------------
(* Inputs *)

NameA == <<"A">>

NameB == <<"B">>

NameAPadded == <<"A", " ">>

EnvNames == {NameA, NameB}

KeyNames == {NameA, NameB, NameAPadded}

\* lists of distinct `env` attributes (add_env rejects a repeated name)
KeyLists ==
    {l \in UNION {[1..n -> KeyNames] : n \in 1..MaxKeys} :
        \A i, j \in DOMAIN l : i # j => l[i] # l[j]}

Present(s) == [st |-> "Ok", v |-> s]

ScalarRaws == {<<"5">>, <<"0">>, <<"x">>, <<" ", "5">>}

CollectionRaws == {<<"a", "=", "5">>, <<"5", ",", "0">>, <<"x">>}

RawsFor(ty) == IF IsScalar(ty) THEN ScalarRaws ELSE CollectionRaws

EnvStates(ty) == {[st |-> "NotPresent"], [st |-> "NotUnicode"]} \cup {Present(s) : s \in RawsFor(ty)}

FallbackRaws(ty) == IF IsScalar(ty) THEN {<<"5">>, <<"x">>, <<" ", "5">>} ELSE {<<"a", "=", "5">>, <<"x">>}

Fallbacks(ty) ==
    {None} \cup {Some(f) : f \in UNION {[d -> FallbackRaws(ty)] : d \in SUBSET EnvNames}}

DefaultContainer == [rename_all |-> None, prefix |-> None, suffix |-> None, delimiter |-> None]

Cases == {"Lower", "Upper", "Pascal", "Camel", "Snake", "ScreamingSnake", "Kebab", "ScreamingKebab"}

Containers ==
    [rename_all : {None} \cup {Some(c) : c \in Cases},
     prefix     : {None, Some(<<"a", "p">>)},
     suffix     : {None, Some(<<"V", "1">>)},
     delimiter  : {None, Some(<<"_">>), Some(<<"-">>)}]

RawNames == {<<"t", "o">>, <<"t", "O", "_", "x">>}

DefaultKinds == {"None", "Type", "Lit", "Call"}

\* fields resolved against the sources: every loader, default and hook combination
ResolveFields ==
    {f \in [ident : {<<"f">>}, envs : KeyLists, ty : {"u64", "String", "map", "set", "vec"},
            optional : BOOLEAN, default : DefaultKinds,
            before : BOOLEAN, parse_fn : BOOLEAN, after : BOOLEAN,
            delimiter : {None}, no_prefix : {FALSE}, no_suffix : {FALSE},
            is_nested : {FALSE}, is_ignore : {FALSE}] :
        /\ (f.before \/ f.parse_fn \/ f.after) => f.ty = "u64"
        /\ ~IsScalar(f.ty) => f.optional /\ f.default # "Lit"
        /\ f.default = "Lit" => f.ty = "u64"}

\* fields whose keys are composed under a naming policy
NamingFields ==
    [ident : {<<"f">>}, envs : {<<n>> : n \in RawNames}, ty : {"String"},
     optional : {FALSE}, default : {"None"},
     before : {FALSE}, parse_fn : {FALSE}, after : {FALSE},
     delimiter : {None}, no_prefix : BOOLEAN, no_suffix : BOOLEAN,
     is_nested : {FALSE}, is_ignore : {FALSE}]

\* fields that declare a default and no `env` attribute
DefaultOnlyFields ==
    {f \in [ident : {<<"f">>}, envs : {<<>>}, ty : {"u64", "String", "map", "set", "vec"},
            optional : BOOLEAN, default : DefaultKinds \ {"None"},
            before : {FALSE}, parse_fn : {FALSE}, after : {FALSE},
            delimiter : {None}, no_prefix : {FALSE}, no_suffix : {FALSE},
            is_nested : {FALSE}, is_ignore : {FALSE}] :
        f.default = "Lit" => f.ty \in {"u64", "String"}}

\* string literals written as a `delimiter` attribute
DelimiterLits == {<<>>, <<"=">>, <<",">>, <<";">>}

MetaLists == UNION {[1..n -> DelimiterLits] : n \in 0..MaxMetas}

\* optional collections whose `delimiter` attributes are still to be parsed
DelimiterFields ==
    [ident : {<<"f">>}, envs : {<<NameA>>}, ty : {"map", "set", "vec"},
     optional : {TRUE}, default : {"None", "Type"},
     before : {FALSE}, parse_fn : {FALSE}, after : {FALSE},
     delimiter : {None}, no_prefix : {FALSE}, no_suffix : {FALSE},
     is_nested : {FALSE}, is_ignore : {FALSE}, metas : MetaLists]

DelimiterRaws ==
    {<<"a", "=", "5", ";", "b", "=", "0">>, <<"a", "=", "5", ",", "b", "=", "0">>,
     <<"5", ";", "0">>, <<"5", ",", "0">>}

------------------------------------------------------------------------------
(* State machine of one field of a derived record *)

Start ==
    /\ pc = "derive"
    /\ envs = <<>>
    /\ loaded = None
    /\ value = None
    /\ result = None
    /\ calls = <<>>

InitResolve ==
    /\ c_attrs = DefaultContainer
    /\ field \in ResolveFields
    /\ env \in [EnvNames -> EnvStates(field.ty)]
    /\ fallback \in Fallbacks(field.ty)
    /\ Start

InitNaming ==
    /\ c_attrs \in Containers
    /\ field \in NamingFields
    /\ env = [n \in EnvNames |-> [st |-> "NotPresent"]]
    /\ fallback = None
    /\ Start

InitDefaultOnly ==
    /\ c_attrs = DefaultContainer
    /\ field \in DefaultOnlyFields
    /\ env = [n \in EnvNames |-> [st |-> "NotPresent"]]
    /\ fallback = None
    /\ Start

\* a field as written: its attributes are parsed before any call is generated
InitDelimiter ==
    /\ c_attrs = DefaultContainer
    /\ field \in DelimiterFields
    /\ \E a \in {[st |-> "NotPresent"]} \cup {Present(s) : s \in DelimiterRaws} :
          env = [n \in EnvNames |-> IF n = NameA THEN a ELSE [st |-> "NotPresent"]]
    /\ fallback = None
    /\ pc = "attrs"
    /\ envs = <<>>
    /\ loaded = None
    /\ value = None
    /\ result = None
    /\ calls = <<>>

\* no record, union or parser call is in progress
Idle == [pc |-> "idle"]

Init ==
    /\ InitResolve \/ InitNaming \/ InitDefaultOnly \/ InitDelimiter
    /\ record = Idle
    /\ mode = Idle
    /\ parser = Idle

\* the pipeline stage that follows stage number n (process_call)
NextStage(f, n) ==
    IF n < 1 /\ f.before THEN "before"
    ELSE IF n < 2 /\ f.parse_fn THEN "parse_fn"
    ELSE IF n < 3 /\ f.after THEN "after"
    ELSE "assign"

\* FieldAttributes::try_from, compile time: the attributes are accepted or the derive fails
TryFrom ==
    /\ pc = "attrs"
    /\ LET r == parse_nested_meta(field.metas, None)
       IN  IF r.ok
           THEN field' = [field EXCEPT !.delimiter = r.val] /\ pc' = "derive"
           ELSE field' = field /\ pc' = "rejected"
    /\ UNCHANGED <<record, mode, parser, c_attrs, env, fallback, envs, loaded, value, result, calls>>

\* generate_env_call, compile time: compose every declared name under the naming policy
GenerateEnvCall ==
    /\ pc = "derive"
    /\ ~field.is_nested
    /\ field.envs # <<>>
    /\ envs' = [i \in DOMAIN field.envs |-> rename(c_attrs, field.envs[i], field.no_prefix, field.no_suffix)]
    /\ pc' = "load"
    /\ UNCHANGED <<record, mode, parser, c_attrs, field, env, fallback, loaded, value, result, calls>>

\* derive_for: a field with a default and no `env` attribute is assigned its default
GenerateDefaultCall ==
    /\ pc = "derive"
    /\ ~field.is_nested
    /\ field.envs = <<>>
    /\ field.default # "None"
    /\ pc' = "default"
    /\ UNCHANGED <<record, mode, parser, c_attrs, field, env, fallback, envs, loaded, value, result, calls>>

\* the default is used only when no key was found; any other loader error is returned
Load_default_only_if_not_found ==
    /\ pc = "load"
    /\ LET r == base_call(field, envs, fallback)
       IN  /\ loaded' = r
           /\ IF r.ok
              THEN /\ value' = r.val
                   /\ pc' = NextStage(field, 0)
                   /\ result' = result
              ELSE IF field.default # "None" /\ r.err.variant = "NotFound"
              THEN /\ pc' = "default"
                   /\ UNCHANGED <<value, result>>
              ELSE /\ pc' = "done"
                   /\ result' = Err(r.err)
                   /\ value' = value
    /\ UNCHANGED <<record, mode, parser, c_attrs, field, env, fallback, envs, calls>>

\* `match #base_call { Ok(value) => ..., Err(_) => #default_call }` or `#base_call?`
Load ==
    /\ pc = "load"
    /\ LET r == base_call(field, envs, fallback)
       IN  /\ loaded' = r
           /\ IF r.ok
              THEN /\ value' = r.val
                   /\ pc' = NextStage(field, 0)
                   /\ result' = result
              ELSE IF field.default # "None"
              THEN /\ pc' = "default"
                   /\ UNCHANGED <<value, result>>
              ELSE /\ pc' = "done"
                   /\ result' = Err(r.err)
                   /\ value' = value
    /\ UNCHANGED <<record, mode, parser, c_attrs, field, env, fallback, envs, calls>>

\* `#validate_fn(&value).map_err(..)?` for validate_fn(before = above_zero)
ValidateBefore ==
    /\ pc = "before"
    /\ calls' = Append(calls, "validate_before")
    /\ IF above_zero(value, field.optional)
       THEN pc' = NextStage(field, 1) /\ result' = result
       ELSE pc' = "done" /\ result' = Err(ValidationError(field.ident, "validate_before"))
    /\ UNCHANGED <<record, mode, parser, c_attrs, field, env, fallback, envs, loaded, value>>

\* `let value = #parse_fn(value);` for parse_fn = add_ten
ParseFn ==
    /\ pc = "parse_fn"
    /\ calls' = Append(calls, "parse_fn")
    /\ value' = add_ten(value, field.optional)
    /\ pc' = NextStage(field, 2)
    /\ UNCHANGED <<record, mode, parser, c_attrs, field, env, fallback, envs, loaded, result>>

\* a rejected value falls back to the declared default instead of failing
ValidateAfter_absorbed ==
    /\ pc = "after"
    /\ calls' = Append(calls, "validate_after")
    /\ IF more_than_ten(value, field.optional)
       THEN pc' = NextStage(field, 3) /\ result' = result
       ELSE IF field.default # "None"
       THEN pc' = "default" /\ result' = result
       ELSE pc' = "done" /\ result' = Err(ValidationError(field.ident, "validate_after"))
    /\ UNCHANGED <<record, mode, parser, c_attrs, field, env, fallback, envs, loaded, value>>

\* `#validate_fn(&value).map_err(..)?` for validate_fn(after = more_than_ten)
ValidateAfter ==
    /\ pc = "after"
    /\ calls' = Append(calls, "validate_after")
    /\ IF more_than_ten(value, field.optional)
       THEN pc' = NextStage(field, 3) /\ result' = result
       ELSE pc' = "done" /\ result' = Err(ValidationError(field.ident, "validate_after"))
    /\ UNCHANGED <<record, mode, parser, c_attrs, field, env, fallback, envs, loaded, value>>

\* the block's final expression `value`: the field is assigned
Assign ==
    /\ pc = "assign"
    /\ result' = Ok(value)
    /\ pc' = "done"
    /\ UNCHANGED <<record, mode, parser, c_attrs, field, env, fallback, envs, loaded, value, calls>>

\* the default value is run through the field's hooks like a retrieved value
DefaultCall_through_pipeline ==
    /\ pc = "default"
    /\ calls' = calls \o (IF field.before THEN <<"validate_before">> ELSE <<>>)
                      \o (IF field.parse_fn THEN <<"parse_fn">> ELSE <<>>)
                      \o (IF field.after THEN <<"validate_after">> ELSE <<>>)
    /\ result' = Ok(default_call(field))
    /\ pc' = "done"
    /\ UNCHANGED <<record, mode, parser, c_attrs, field, env, fallback, envs, loaded, value>>

\* `Err(_) => #default_call`
DefaultCall ==
    /\ pc = "default"
    /\ result' = Ok(default_call(field))
    /\ pc' = "done"
    /\ UNCHANGED <<record, mode, parser, c_attrs, field, env, fallback, envs, loaded, value, calls>>

Next ==
    \/ TryFrom
    \/ GenerateEnvCall
    \/ GenerateDefaultCall
    \/ Load
    \/ ValidateBefore
    \/ ParseFn
    \/ ValidateAfter
    \/ Assign
    \/ DefaultCall

Spec == Init /\ [][Next]_vars

------------------------------------------------------------------------------
(* Derived enum (envoke_derive/src/derive/enums) *)

EnumNotFound == [kind |-> "EnumError", variant |-> "NotFound"]

\* Variant::get_names: the rename first, else the aliases followed by the identifier
get_names(v) ==
    IF v.rename.some THEN <<v.rename.v>> \o v.aliases ELSE Append(v.aliases, v.ident)

\* ContainerAttributes::get_envs: every discriminant key under the naming policy
get_envs(c) == [i \in DOMAIN c.envs |-> rename(c, c.envs[i], FALSE, FALSE)]

Contains(l, x) == \E i \in DOMAIN l : l[i] = x

\* generate_variant_calls, the loop over the names of one variant
RECURSIVE rename_names(_, _, _, _, _)
rename_names(c, v, names, existing_names, renamed) ==
    IF names = <<>> THEN [ok |-> TRUE, existing_names |-> existing_names, renamed |-> renamed]
    ELSE LET new_name == rename(c, Head(names), v.no_prefix, v.no_suffix)
         IN  IF Contains(existing_names, new_name) THEN [ok |-> FALSE]
             ELSE rename_names(c, v, Tail(names),
                               Append(existing_names, Head(names)), Append(renamed, new_name))

\* a second default variant replaces the first instead of being rejected
RECURSIVE variant_calls_from_last_default(_, _, _, _, _, _)
variant_calls_from_last_default(c, variants, i, acc, dflt, existing_names) ==
    IF i > Len(variants) THEN Ok([calls |-> acc, default_call |-> dflt])
    ELSE LET v == variants[i]
             r == rename_names(c, v, get_names(v), existing_names, <<>>)
         IN  IF ~r.ok THEN Err("already_used")
             ELSE variant_calls_from_last_default(c, variants, i + 1,
                      Append(acc, [renamed |-> r.renamed, variant |-> i]),
                      IF v.default THEN Some(i) ELSE dflt,
                      r.existing_names)

\* generate_variant_calls, the loop over the variants from number i on
RECURSIVE variant_calls_from(_, _, _, _, _, _)
variant_calls_from(c, variants, i, acc, dflt, existing_names) ==
    IF i > Len(variants) THEN Ok([calls |-> acc, default_call |-> dflt])
    ELSE LET v == variants[i]
             r == rename_names(c, v, get_names(v), existing_names, <<>>)
         IN  IF ~r.ok THEN Err("already_used")
             ELSE IF v.default /\ dflt.some THEN Err("duplicate_attribute")
             ELSE variant_calls_from(c, variants, i + 1,
                      Append(acc, [renamed |-> r.renamed, variant |-> i]),
                      IF v.default THEN Some(i) ELSE dflt,
                      r.existing_names)

generate_variant_calls(variants, c) == variant_calls_from(c, variants, 1, <<>>, None, <<>>)

\* <Inner as Envoke>::try_envoke of a payload struct `{ #[fill(env = key)] api_port: u64 }`
inner_try_envoke(key) ==
    LET r == Envloader_load_once("u64", <<key>>)
    IN  IF r.ok THEN Ok([api_port |-> r.val]) ELSE Err(r.err)

\* `#enum_name::#ident(#inner_ident::try_envoke()?)`
variant_try_envoke(variants, i) ==
    LET r == inner_try_envoke(variants[i].inner)
    IN  IF r.ok THEN Ok([variant |-> i, inner |-> r.val]) ELSE r

(* Inputs *)

NameM == <<"M">>

NameE == <<"E">>

EnumContainers ==
    {c \in [envs : {<<NameM>>, <<NameM, NameE>>},
            rename_all : {None, Some("Upper")},
            prefix : {None, Some(<<"p">>)}, suffix : {None},
            delimiter : {None, Some(<<"_">>)}] :
        c.delimiter.some => c.prefix.some}

FirstVariants ==
    [ident : {<<"P", "r">>}, inner : {NameA},
     rename : {None, Some(<<"x">>)}, aliases : {<<>>, <<<<"y">>>>},
     no_prefix : BOOLEAN, no_suffix : {FALSE}, default : BOOLEAN]

SecondVariants ==
    [ident : {<<"D", "e">>}, inner : {NameB},
     rename : {None}, aliases : {<<>>, <<<<"P", "r">>>>, <<<<"P", "R">>>>},
     no_prefix : BOOLEAN, no_suffix : {FALSE}, default : BOOLEAN]

VariantLists == {<<a, b>> : a \in FirstVariants, b \in SecondVariants}

\* every name a variant of the enum answers to, under the naming policy
ResolvedNames(c, variants) ==
    UNION {{rename(c, get_names(variants[i])[j], variants[i].no_prefix, variants[i].no_suffix) :
                j \in DOMAIN get_names(variants[i])} : i \in DOMAIN variants}

NameW == <<"W">>

(* State machine of try_envoke of a derived enum *)

InitEnum ==
    /\ c_attrs \in EnumContainers
    /\ \E vs \in VariantLists :
          mode = [pc |-> "derive", variants |-> vs, calls |-> <<>>, default_call |-> None,
                  value |-> None, found |-> None, i |-> 1, resolved |-> <<>>, result |-> None]
    /\ \E d \in {[st |-> "NotPresent"]} \cup {Present(n) : n \in ResolvedNames(c_attrs, mode.variants) \cup {NameW}},
          e \in {[st |-> "NotPresent"], Present(NameW)},
          a, b \in {[st |-> "NotPresent"], Present(<<"5">>)} :
          env = [k \in {get_envs(c_attrs)[i] : i \in DOMAIN c_attrs.envs} \cup {NameA, NameB} |->
                    IF k = NameA THEN a ELSE IF k = NameB THEN b
                    ELSE IF k = get_envs(c_attrs)[1] THEN d ELSE e]
    /\ field = Idle
    /\ fallback = None
    /\ Start
    /\ record = Idle
    /\ parser = Idle

\* derive_for, compile time: the variant calls, or a compile error
DeriveEnum ==
    /\ mode.pc = "derive"
    /\ LET g == generate_variant_calls(mode.variants, c_attrs)
       IN  mode' = IF g.ok
                   THEN [mode EXCEPT !.pc = "value", !.calls = g.val.calls,
                                     !.default_call = g.val.default_call]
                   ELSE [mode EXCEPT !.pc = "rejected"]
    /\ UNCHANGED <<c_attrs, field, env, fallback, pc, envs, loaded, value, result, calls, record, parser>>

\* `let value = #value_call?;`
ValueCall ==
    /\ mode.pc = "value"
    /\ LET r == Envloader_load_once("String", get_envs(c_attrs))
       IN  mode' = IF r.ok
                   THEN [mode EXCEPT !.pc = "calls", !.value = Some(r.val)]
                   ELSE [mode EXCEPT !.pc = "done", !.result = Err(r.err)]
    /\ UNCHANGED <<c_attrs, field, env, fallback, pc, envs, loaded, value, result, calls, record, parser>>

\* `if [#(#renamed),*].iter().any(|n| value.eq(n)) { found = Some(..try_envoke()?) }`
VariantCall ==
    /\ mode.pc = "calls"
    /\ LET call == mode.calls[mode.i]
           after == IF mode.i = Len(mode.calls) THEN "unwrap" ELSE "calls"
       IN  IF Contains(call.renamed, mode.value.v)
           THEN LET r == variant_try_envoke(mode.variants, call.variant)
                IN  mode' = IF r.ok
                            THEN [mode EXCEPT !.pc = after, !.i = @ + 1, !.found = Some(r.val),
                                              !.resolved = Append(@, call.variant)]
                            ELSE [mode EXCEPT !.pc = "done", !.result = r,
                                              !.resolved = Append(@, call.variant)]
           ELSE mode' = [mode EXCEPT !.pc = after, !.i = @ + 1]
    /\ UNCHANGED <<c_attrs, field, env, fallback, pc, envs, loaded, value, result, calls, record, parser>>

\* the declared default variant is never used
UnwrapCall_no_default ==
    /\ mode.pc = "unwrap"
    /\ mode' = IF mode.found.some
               THEN [mode EXCEPT !.pc = "done", !.result = Ok(mode.found.v)]
               ELSE [mode EXCEPT !.pc = "done", !.result = Err(EnumNotFound)]
    /\ UNCHANGED <<c_attrs, field, env, fallback, pc, envs, loaded, value, result, calls, record, parser>>

\* without a default variant the first declared variant is used
UnwrapCall_first_variant ==
    /\ mode.pc = "unwrap"
    /\ mode' = IF mode.found.some
               THEN [mode EXCEPT !.pc = "done", !.result = Ok(mode.found.v)]
               ELSE LET d == IF mode.default_call.some THEN mode.default_call.v ELSE 1
                    IN  [mode EXCEPT !.pc = "done",
                                     !.result = variant_try_envoke(mode.variants, d),
                                     !.resolved = Append(@, d)]
    /\ UNCHANGED <<c_attrs, field, env, fallback, pc, envs, loaded, value, result, calls, record, parser>>

\* `match found { Some(value) => Ok(value), None => #default }`, or EnumError::NotFound
UnwrapCall ==
    /\ mode.pc = "unwrap"
    /\ mode' = IF mode.found.some
               THEN [mode EXCEPT !.pc = "done", !.result = Ok(mode.found.v)]
               ELSE IF mode.default_call.some
               THEN [mode EXCEPT !.pc = "done",
                                 !.result = variant_try_envoke(mode.variants, mode.default_call.v),
                                 !.resolved = Append(@, mode.default_call.v)]
               ELSE [mode EXCEPT !.pc = "done", !.result = Err(EnumNotFound)]
    /\ UNCHANGED <<c_attrs, field, env, fallback, pc, envs, loaded, value, result, calls, record, parser>>

NextEnum ==
    \/ DeriveEnum
    \/ ValueCall
    \/ VariantCall
    \/ UnwrapCall

SpecEnum == InitEnum /\ [][NextEnum]_vars

------------------------------------------------------------------------------
(* Derived record (envoke_derive/src/derive/structs/mod.rs) *)

\* a field of type u64 or Option<u64> with the attributes that differ from the defaults
FieldOf(ident, attrs) ==
    [a \in {"ident", "envs", "ty", "optional", "default", "before", "parse_fn", "after",
            "delimiter", "no_prefix", "no_suffix", "is_nested", "is_ignore", "inner"} |->
        IF a \in DOMAIN attrs THEN attrs[a]
        ELSE CASE a = "ident" -> ident
               [] a = "envs" -> <<>>
               [] a = "ty" -> "u64"
               [] a = "default" -> "None"
               [] a = "delimiter" -> None
               [] a = "inner" -> <<>>
               [] OTHER -> FALSE]

\* the fields a record is declared from
RecordFields ==
    { FieldOf(<<"r">>, [envs |-> <<NameA>>]),
      FieldOf(<<"d">>, [envs |-> <<NameB>>, default |-> "Lit"]),
      FieldOf(<<"h">>, [envs |-> <<NameB>>, before |-> TRUE, parse_fn |-> TRUE, after |-> TRUE]),
      FieldOf(<<"o">>, [envs |-> <<NameA>>, optional |-> TRUE]),
      FieldOf(<<"c">>, [default |-> "Call"]),
      FieldOf(<<"n">>, [is_nested |-> TRUE, inner |-> NameB]),
      FieldOf(<<"i">>, [optional |-> TRUE, is_ignore |-> TRUE]),
      FieldOf(<<"j">>, [optional |-> TRUE, is_ignore |-> TRUE, envs |-> <<NameA>>]) }

\* records of distinct fields, in declaration order
Records ==
    {l \in UNION {[1..n -> RecordFields] : n \in 1..MaxFields} :
        \A i, j \in DOMAIN l : i # j => l[i] # l[j]}

\* the container's `dotenv` attribute: unset, or a file that load_dotenv reads as this map
DotenvFiles ==
    {None, Some([k \in {NameA} |-> <<"5">>]), Some([k \in {NameA, NameB} |-> <<"5">>])}

(* State machine of try_envoke of a derived record *)

\* the generated try_envoke never calls load_dotenv: no fallback map reaches a loader
InitRecord ==
    /\ \E d \in DotenvFiles : c_attrs = [dotenv |-> d] @@ DefaultContainer
    /\ \E fs \in Records :
          record = [pc |-> "derive", fields |-> fs, i |-> 1, visited |-> <<>>,
                    outcomes |-> <<>>, result |-> None, runs |-> <<>>]
    /\ env \in [EnvNames -> {[st |-> "NotPresent"], Present(<<"5">>), Present(<<"0">>), Present(<<"x">>)}]
    /\ fallback = None
    /\ field = Idle
    /\ pc = "idle"
    /\ envs = <<>>
    /\ loaded = None
    /\ value = None
    /\ result = None
    /\ calls = <<>>
    /\ mode = Idle
    /\ parser = Idle

\* derive_for, compile time: every field needs a value call, else `unreachable!()`
DeriveFor ==
    /\ record.pc = "derive"
    /\ record' = IF \E i \in DOMAIN record.fields :
                       LET f == record.fields[i]
                       IN  ~f.is_nested /\ f.envs = <<>> /\ f.default = "None"
                 THEN [record EXCEPT !.pc = "panic"]
                 ELSE [record EXCEPT !.pc = "next"]
    /\ UNCHANGED <<c_attrs, field, env, fallback, pc, envs, loaded, value, result, calls, mode, parser>>

\* try_envoke: the value call of the next field of `Ok(#struct_name { .. })` starts
StartField ==
    /\ record.pc = "next"
    /\ field' = record.fields[record.i]
    /\ pc' = "derive"
    /\ envs' = <<>>
    /\ loaded' = None
    /\ value' = None
    /\ result' = None
    /\ calls' = <<>>
    /\ record' = [record EXCEPT !.pc = "field", !.visited = Append(@, record.i)]
    /\ UNCHANGED <<c_attrs, env, fallback, mode, parser>>

\* `<#ty as envoke::Envoke>::try_envoke()?` of a nested field
NestedCall ==
    /\ pc = "derive"
    /\ field.is_nested
    /\ result' = inner_try_envoke(field.inner)
    /\ pc' = "done"
    /\ UNCHANGED <<record, mode, parser, c_attrs, field, env, fallback, envs, loaded, value, calls>>

\* every field's error is collected and the last one is returned
FieldAssignment_collect ==
    /\ record.pc = "field"
    /\ pc = "done"
    /\ pc' = "idle"
    /\ LET last == record.i = Len(record.fields)
           errs == {k \in DOMAIN record.outcomes : ~record.outcomes[k].ok}
       IN  record' = [record EXCEPT
                        !.outcomes = Append(@, result),
                        !.i = IF last THEN @ ELSE @ + 1,
                        !.pc = IF last THEN "done" ELSE "next",
                        !.result = IF ~last THEN @
                                   ELSE IF ~result.ok THEN result
                                   ELSE IF errs # {} THEN record.outcomes[CHOOSE k \in errs : \A j \in errs : j <= k]
                                   ELSE Ok(Append([k \in DOMAIN record.outcomes |-> record.outcomes[k].val],
                                                  result.val))]
    /\ UNCHANGED <<c_attrs, field, env, fallback, envs, loaded, value, result, calls, mode, parser>>

\* `#ident: #value_call`: the value is assigned, or its `?` returns the error
FieldAssignment ==
    /\ record.pc = "field"
    /\ pc = "done"
    /\ pc' = "idle"
    /\ LET last == record.i = Len(record.fields)
       IN  record' = IF ~result.ok
                     THEN [record EXCEPT !.outcomes = Append(@, result), !.pc = "done",
                                         !.result = result]
                     ELSE [record EXCEPT
                             !.outcomes = Append(@, result),
                             !.i = IF last THEN @ ELSE @ + 1,
                             !.pc = IF last THEN "done" ELSE "next",
                             !.result = IF last
                                        THEN Ok(Append([k \in DOMAIN record.outcomes |-> record.outcomes[k].val],
                                                       result.val))
                                        ELSE @]
    /\ UNCHANGED <<c_attrs, field, env, fallback, envs, loaded, value, result, calls, mode, parser>>

\* the values of the previous call are kept and the new call adds to them
TryEnvoke_memoized ==
    /\ record.pc = "done"
    /\ Len(record.runs) + 1 < MaxRuns
    /\ record' = [record EXCEPT !.pc = "next", !.i = 1, !.visited = <<>>,
                                !.result = None, !.runs = Append(@, record.result)]
    /\ UNCHANGED <<c_attrs, field, env, fallback, pc, envs, loaded, value, result, calls, mode, parser>>

\* `fn try_envoke()` is called again: a fresh `Ok(#struct_name { .. })` is assembled
TryEnvoke ==
    /\ record.pc = "done"
    /\ Len(record.runs) + 1 < MaxRuns
    /\ record' = [record EXCEPT !.pc = "next", !.i = 1, !.visited = <<>>, !.outcomes = <<>>,
                                !.result = None, !.runs = Append(@, record.result)]
    /\ UNCHANGED <<c_attrs, field, env, fallback, pc, envs, loaded, value, result, calls, mode, parser>>

NextRecord ==
    \/ DeriveFor
    \/ TryEnvoke
    \/ StartField
    \/ NestedCall
    \/ GenerateEnvCall
    \/ GenerateDefaultCall
    \/ Load
    \/ ValidateBefore
    \/ ParseFn
    \/ ValidateAfter
    \/ Assign
    \/ DefaultCall
    \/ FieldAssignment

SpecRecord == InitRecord /\ [][NextRecord]_vars

------------------------------------------------------------------------------
(* Calls of the collection parsers (envoke/src/utils.rs) *)

Alphabet == {"a", "1", "=", ",", " "}

RawStrings == UNION {[1..n -> Alphabet] : n \in 0..MaxLen}

\* delimiters set_delimiter accepts: neither "=" nor empty
Delimiters == {<<",">>, <<" ">>}

ParserCalls ==
    [pc : {"call"}, fn : {"parse_map"}, kty : {"String"}, ty : {"String"},
     sequence : RawStrings, delim : Delimiters, out : {None}]
    \cup [pc : {"call"}, fn : {"parse_map"}, kty : {"u64"}, ty : {"u64"},
          sequence : RawStrings, delim : Delimiters, out : {None}]
    \cup [pc : {"call"}, fn : {"parse_set"}, kty : {"u64"}, ty : {"vec", "set"},
          sequence : RawStrings, delim : Delimiters, out : {None}]

InitParser ==
    /\ parser \in ParserCalls
    /\ c_attrs = DefaultContainer
    /\ field = Idle
    /\ env = <<>>
    /\ fallback = None
    /\ Start
    /\ record = Idle
    /\ mode = Idle

\* parse_map::<K, V, HashMap<K, V>>(pairs, delim)
ParseMap ==
    /\ parser.pc = "call"
    /\ parser.fn = "parse_map"
    /\ parser' = [parser EXCEPT !.pc = "return",
                                !.out = parse_map(parser.kty, parser.ty, parser.sequence, parser.delim)]
    /\ UNCHANGED <<c_attrs, field, env, fallback, pc, envs, loaded, value, result, calls, record, mode>>

\* parse_set::<Vec<u64>, u64>(sequence, delim) or parse_set::<HashSet<u64>, u64>(sequence, delim)
ParseSet ==
    /\ parser.pc = "call"
    /\ parser.fn = "parse_set"
    /\ parser' = [parser EXCEPT !.pc = "return",
                                !.out = parse_set(parser.ty, parser.sequence, parser.delim)]
    /\ UNCHANGED <<c_attrs, field, env, fallback, pc, envs, loaded, value, result, calls, record, mode>>

NextParser ==
    \/ ParseMap
    \/ ParseSet

SpecParser == InitParser /\ [][NextParser]_vars

------------------------------------------------------------------------------
(* Calls of the optional scalar loader on one raw value held by the         *)
(* environment and then by the fallback map (envoke/src/load_opt.rs)        *)

SourceAlphabet == {"5", "x", " "}

SourceRaws == UNION {[1..n -> SourceAlphabet] : n \in 0..MaxRaw}

AllAbsent == [n \in EnvNames |-> [st |-> "NotPresent"]]

\* the Result<Option<V>> a loader call returns
Returns(r) == IF r.ok THEN Ok(r.val) ELSE Err(r.err)

InitSources ==
    /\ \E ty \in {"u64", "String"}, keys \in {<<NameA>>, <<NameB, NameA>>}, v \in SourceRaws :
          parser = [pc |-> "env", fn |-> "load_once", ty |-> ty, keys |-> keys,
                    sequence |-> v, outs |-> <<>>]
    /\ env = [AllAbsent EXCEPT ![NameA] = Present(parser.sequence)]
    /\ fallback \in {None, Some(<<>>)}
    /\ c_attrs = DefaultContainer
    /\ field = Idle
    /\ Start
    /\ record = Idle
    /\ mode = Idle

\* OptEnvloader::<Option<V>>::load_once(keys, ",", fallback)
LoadOnce ==
    /\ parser.pc \in {"env", "fallback"}
    /\ parser' = [parser EXCEPT
                    !.pc = IF parser.pc = "env" THEN "move" ELSE "return",
                    !.outs = Append(@, Returns(OptEnvloader_load_once(parser.ty, parser.keys, fallback)))]
    /\ UNCHANGED <<c_attrs, field, env, fallback, pc, envs, loaded, value, result, calls, record, mode>>

\* the caller takes the value out of the environment and supplies it in the fallback map
MoveToFallback ==
    /\ parser.pc = "move"
    /\ env' = AllAbsent
    /\ fallback' = Some([k \in {NameA} |-> parser.sequence])
    /\ parser' = [parser EXCEPT !.pc = "fallback"]
    /\ UNCHANGED <<c_attrs, field, pc, envs, loaded, value, result, calls, record, mode>>

NextSources ==
    \/ LoadOnce
    \/ MoveToFallback

SpecSources == InitSources /\ [][NextSources]_vars

------------------------------------------------------------------------------
(* Properties *)

\* the loader call of the field has returned
Loaded == loaded # None

\* presence of a declared key as each source reads it
EnvHas(k) == EnvVar(Trim(k)).st # "NotPresent"

FallbackHas(k) == fallback.some /\ k \in DOMAIN fallback.v

AnyIn(keys, Has(_)) == \E i \in DOMAIN keys : Has(keys[i])

FirstIn(keys, Has(_)) == CHOOSE i \in DOMAIN keys : Has(keys[i]) /\ \A j \in 1..(i - 1) : ~Has(keys[j])

\* what the environment holds under the first declared key present there
EnvFirst == EnvVar(Trim(envs[FirstIn(envs, EnvHas)]))

\* the loader returned a value read from a source
Found == Loaded /\ loaded.ok /\ loaded.source # "none"

\* C1: if a listed key is present in the environment the value comes from the
\* environment (first listed key present there), whatever the fallback map
\* holds; the fallback map supplies the value only when no listed key is
\* present in the environment, and then from the first listed key it holds.
C1_EnvironmentWins ==
    (Loaded /\ field.optional /\ Found) =>
        IF AnyIn(envs, EnvHas)
        THEN /\ loaded.source = "env"
             /\ loaded.key = Trim(envs[FirstIn(envs, EnvHas)])
        ELSE /\ loaded.source = "fallback"
             /\ loaded.key = envs[FirstIn(envs, FallbackHas)]

\* C2: within one source the keys are scanned in declaration order and the
\* value of the first key present there is used, never a later key's.
C2_FirstPresentKeyWins ==
    (Loaded /\ Found) =>
        /\ loaded.source = "env" =>
              /\ AnyIn(envs, EnvHas)
              /\ loaded.key = Trim(envs[FirstIn(envs, EnvHas)])
              /\ EnvFirst = Present(loaded.raw)
              /\ (field.ty = "String" /\ ~field.optional) => loaded.val = Trim(EnvFirst.v)
        /\ loaded.source = "fallback" =>
              /\ AnyIn(envs, FallbackHas)
              /\ loaded.key = envs[FirstIn(envs, FallbackHas)]
              /\ loaded.raw = fallback.v[loaded.key]

\* two declared keys are present in the environment with different values
C2_Witness ==
    /\ Loaded /\ Found /\ loaded.source = "env"
    /\ Len(envs) = 2
    /\ EnvVar(Trim(envs[1])).st = "Ok" /\ EnvVar(Trim(envs[2])).st = "Ok"
    /\ EnvVar(Trim(envs[1])) # EnvVar(Trim(envs[2]))

\* the delimiter the field's collection loader is called with
DelimiterUsed == IF field.delimiter.some THEN field.delimiter.v ELSE <<",">>

\* the first declared key present in the environment holds text that the
\* field's loader cannot parse into the intermediate type
EnvUnparsable ==
    /\ AnyIn(envs, EnvHas)
    /\ EnvFirst.st = "Ok"
    /\ CASE IsScalar(field.ty) -> ~FromStr(field.ty, Trim(EnvFirst.v)).ok
         [] field.ty = "map" -> ~parse_map("String", "u64", Trim(EnvFirst.v), DelimiterUsed).ok
         [] OTHER -> ~parse_set(field.ty, Trim(EnvFirst.v), DelimiterUsed).ok

\* no declared key is present in any source
AbsentEverywhere == ~AnyIn(envs, EnvHas) /\ ~AnyIn(envs, FallbackHas)

\* C3: once a key is found in the environment and its value fails to parse,
\* a field without a default fails with ParseError::UnexpectedValueType of
\* that value; the remaining keys are not tried.
C3_ParseFailureIsError ==
    (pc = "done" /\ field.default = "None" /\ IsScalar(field.ty) /\ EnvUnparsable) =>
        result = Err(UnexpectedValueType(EnvFirst.v))

\* C4: a field with a default whose keys are absent from every source resolves
\* to the default value and none of its hooks is invoked.
C4_DefaultBypassesPipeline ==
    (pc = "done" /\ field.default # "None" /\ AbsentEverywhere) =>
        /\ result = Ok(default_call(field))
        /\ calls = <<>>

\* the hooks the field declares, in pipeline order
RECURSIVE SelectSeq2(_, _)
SelectSeq2(l, keep) ==
    IF l = <<>> THEN <<>>
    ELSE (IF Head(l) \in keep THEN <<Head(l)>> ELSE <<>>) \o SelectSeq2(Tail(l), keep)

Pipeline ==
    SelectSeq2(<<"validate_before", "parse_fn", "validate_after">>,
               (IF field.before THEN {"validate_before"} ELSE {})
                 \cup (IF field.parse_fn THEN {"parse_fn"} ELSE {})
                 \cup (IF field.after THEN {"validate_after"} ELSE {}))

IsPrefix(a, b) == Len(a) <= Len(b) /\ SubSeq(b, 1, Len(a)) = a

\* C5: the pipeline runs parse, validate_before, parse_transform,
\* validate_after in that order; the first step that fails aborts the field
\* and no later step is invoked.
C5_PipelineOrder ==
    /\ IsPrefix(calls, Pipeline)
    /\ (Loaded /\ EnvUnparsable) => calls = <<>>
    /\ (pc = "done" /\ ~result.ok /\ result.err.kind = "ValidationError") =>
            calls[Len(calls)] = result.err.err
    /\ (pc = "done" /\ result.ok /\ Found) => calls = Pipeline

\* the value the loader returned is rejected by a validator of the field
RejectedBefore == field.before /\ ~above_zero(loaded.val, field.optional)

RejectedAfter ==
    /\ field.after
    /\ ~more_than_ten(IF field.parse_fn THEN add_ten(loaded.val, field.optional) ELSE loaded.val,
                      field.optional)

\* C6: a found value that validate_before or validate_after rejects makes the
\* field fail with a validation error, also when the field declares a
\* default; the default is not substituted.
C6_RejectionIsError ==
    (pc = "done" /\ Found /\ (RejectedBefore \/ RejectedAfter)) =>
        /\ ~result.ok
        /\ result.err.kind = "ValidationError"

\* a field with a default whose found value is rejected after the transform
C6_Witness ==
    /\ pc = "done" /\ Found /\ field.default # "None"
    /\ field.parse_fn /\ ~RejectedBefore /\ RejectedAfter
    /\ ~result.ok

\* C7: a value found in a source that cannot be parsed into the intermediate
\* type resolves to the default when the field declares one.
C7_ParseFailureUsesDefault ==
    (pc = "done" /\ field.default # "None" /\ EnvUnparsable) =>
        result = Ok(default_call(field))

\* C8: an optional target is None without error when no key is present in
\* any source; a present but unparsable value is an error, never None.
C8_OptionalAbsentOrError ==
    (Loaded /\ field.optional) =>
        /\ AbsentEverywhere => (loaded.ok /\ loaded.val = None)
        /\ EnvUnparsable => ~loaded.ok

\* the key the naming policy prescribes for a declared name under delimiter d
ComposedKey(raw, d) ==
    LET prefix   == IF c_attrs.prefix.some THEN c_attrs.prefix.v ELSE <<>>
        suffix   == IF c_attrs.suffix.some THEN c_attrs.suffix.v ELSE <<>>
        composed == (IF field.no_prefix THEN <<>> ELSE prefix \o d) \o raw
                      \o (IF field.no_suffix THEN <<>> ELSE d \o suffix)
    IN  IF c_attrs.rename_all.some THEN Case_rename(c_attrs.rename_all.v, composed) ELSE composed

C10_DefaultDelimiter ==
    (/\ pc # "derive"
     /\ ~c_attrs.delimiter.some /\ c_attrs.prefix.some /\ ~c_attrs.rename_all.some
     /\ ~field.no_prefix) =>
        \A i \in DOMAIN envs : StartsWith(envs[i], c_attrs.prefix.v \o <<"_">> \o field.envs[i])

------------------------------------------------------------------------------
(* Properties of a derived enum *)

EnumDone == mode.pc = "done"

\* no discriminant key is present in the environment
DiscriminantAbsent ==
    \A i \in DOMAIN c_attrs.envs : EnvVar(get_envs(c_attrs)[i]).st = "NotPresent"

DiscriminantFound == mode.value.some

\* the discriminant equals a resolved name of variant number i
Matches(i) ==
    LET v == mode.variants[i]
    IN  \E j \in DOMAIN get_names(v) :
            rename(c_attrs, get_names(v)[j], v.no_prefix, v.no_suffix) = mode.value.v

DefaultVariants == {i \in DOMAIN mode.variants : mode.variants[i].default}

\* the enum resolved to variant number i: its value with the payload read from
\* the payload's key, or the payload's own lookup error
ResolvesTo(i) ==
    LET p == EnvVar(mode.variants[i].inner)
    IN  IF p.st = "Ok"
        THEN mode.result = Ok([variant |-> i, inner |-> [api_port |-> Decimal(p.v)]])
        ELSE ~mode.result.ok /\ mode.result.err = NotFound(JoinKeys(<<mode.variants[i].inner>>))

\* C11: a discriminant equal to a resolved name of a variant resolves the enum
\* to that variant, with its payload resolved, and never to the default
\* variant.
C11_MatchedVariantIsResult ==
    (EnumDone /\ DiscriminantFound) =>
        \A i \in DOMAIN mode.variants : Matches(i) => ResolvesTo(i)

\* C12: when no discriminant key is present in any source and a default
\* variant is declared, the enum resolves to the default variant and the
\* lookup's NotFound error is not returned.
C12_AbsentDiscriminantUsesDefault ==
    (EnumDone /\ DiscriminantAbsent) =>
        \A d \in DefaultVariants : ResolvesTo(d)

------------------------------------------------------------------------------
(* Properties of the collection parsers *)

Returned(fn) == parser.pc = "return" /\ parser.fn = fn

Parsable(ty, s) == ty = "String" \/ (s # <<>> /\ \A i \in DOMAIN s : s[i] \in Digits)

Parsed(ty, s) == IF ty = "String" THEN s ELSE Decimal(s)

\* what one segment of a map contributes: a pair, or the error it raises
SegmentOutcome(kty, vty, seg) ==
    LET i   == Find(seg, <<"=">>)
        key == Trim(SubSeq(seg, 1, i - 1))
        val == Trim(SubSeq(seg, i + 1, Len(seg)))
    IN  CASE i = 0 -> Err(MissingValue)
          [] i # 0 /\ key = <<>> -> Err(MissingKey)
          [] i # 0 /\ key # <<>> /\ val = <<>> -> Err(MissingValue)
          [] i # 0 /\ key # <<>> /\ val # <<>> /\ ~Parsable(kty, key) -> Err(UnexpectedKeyType(key))
          [] i # 0 /\ key # <<>> /\ val # <<>> /\ Parsable(kty, key) /\ ~Parsable(vty, val)
                -> Err(UnexpectedValueType(val))
          [] OTHER -> Ok(<<Parsed(kty, key), Parsed(vty, val)>>)

Min(S) == CHOOSE x \in S : \A y \in S : x <= y

Max(S) == CHOOSE x \in S : \A y \in S : x >= y

\* the map the segments denote: the error of the first failing segment, else
\* every key with the value of its last segment
MapOf(kty, vty, segs) ==
    LET o(i) == SegmentOutcome(kty, vty, segs[i])
        bad  == {i \in DOMAIN segs : ~o(i).ok}
    IN  IF bad # {} THEN o(Min(bad))
        ELSE Ok([k \in {o(i).val[1] : i \in DOMAIN segs} |->
                    o(Max({i \in DOMAIN segs : o(i).val[1] = k})).val[2]])

\* C15 as stated: the raw string itself is split on the delimiter; every
\* segment is split at its first "=", both sides are trimmed, and the first
\* failing segment decides the error; else the map holds every pair, a
\* duplicate key keeping its last value.
C15_ParseMapSplitsRaw ==
    Returned("parse_map") =>
        parser.out = MapOf(parser.kty, parser.ty, Split(parser.sequence, parser.delim))

\* C15 amended: the raw string is trimmed BEFORE it is split on the delimiter
\* (a leading or trailing whitespace delimiter yields no empty segment); a
\* segment without "=" gives MissingValue even when it is empty, a segment
\* with "=" and an empty key gives MissingKey even when its value is empty
\* too; the rest as stated.
C15_ParseMapSplitsTrimmed ==
    Returned("parse_map") =>
        parser.out = MapOf(parser.kty, parser.ty, Split(Trim(parser.sequence), parser.delim))

\* `a=1,a=a` as a map of strings: the later pair of the duplicate key wins
C15_Witness ==
    /\ Returned("parse_map")
    /\ parser.kty = "String"
    /\ parser.sequence = <<"a", "=", "1", ",", "a", "=", "a">>
    /\ parser.delim = <<",">>
    /\ parser.out = Ok([k \in {<<"a">>} |-> <<"a">>])

\* what one element of a set or sequence contributes
ElementOutcome(part) ==
    LET val == Trim(part)
    IN  CASE val = <<>> -> Err(MissingValue)
          [] val # <<>> /\ ~Parsable("u64", val) -> Err(UnexpectedValueType(val))
          [] OTHER -> Ok(Decimal(val))

\* the list or set the elements denote, or the error of the first failing element
CollectionOf(ty, segs) ==
    LET o(i) == ElementOutcome(segs[i])
        bad  == {i \in DOMAIN segs : ~o(i).ok}
    IN  IF bad # {} THEN o(Min(bad))
        ELSE IF ty = "vec" THEN Ok([i \in DOMAIN segs |-> o(i).val])
        ELSE Ok({o(i).val : i \in DOMAIN segs})

\* the raw string ends with the delimiter and every element before it parses
TrailingDelimiter ==
    LET segs == Split(parser.sequence, parser.delim)
    IN  /\ Len(segs) > 1
        /\ segs[Len(segs)] = <<>>
        /\ \A i \in 1..(Len(segs) - 1) : ElementOutcome(segs[i]).ok

------------------------------------------------------------------------------
(* Properties of a derived record *)

RecordDone == record.pc = "done"

Failed(outcome) == ~outcome.ok

\* C17: the fields of a record are resolved in declaration order; the first
\* field that fails ends the assembly with its own error, no field declared
\* after it is started, looked up or run through its hooks, and a record is
\* returned only when every field succeeded.
C17_FailFastInOrder ==
    record.pc \in {"next", "field", "done"} =>
        /\ record.visited = [k \in 1..Len(record.visited) |-> k]
        /\ Len(record.visited) \in {Len(record.outcomes), Len(record.outcomes) + 1}
        /\ record.pc = "field" => field = record.fields[Len(record.visited)]
        /\ record.pc # "field" => pc = "idle" /\ Len(record.visited) = Len(record.outcomes)
        /\ \A k \in DOMAIN record.outcomes :
              Failed(record.outcomes[k]) =>
                  /\ k = Len(record.outcomes)
                  /\ RecordDone
                  /\ record.result = record.outcomes[k]
        /\ (RecordDone /\ record.result.ok) =>
              /\ Len(record.outcomes) = Len(record.fields)
              /\ record.result.val = [k \in DOMAIN record.fields |-> record.outcomes[k].val]

\* the first of two fields fails: its NotFound is returned, the second is never started
C17_Witness ==
    /\ RecordDone
    /\ Len(record.fields) = 2
    /\ record.fields[1].ident = <<"r">>
    /\ record.visited = <<1>>
    /\ record.result = Err(NotFound(JoinKeys(<<NameA>>)))

\* C18: a field marked `ignore` is skipped: deriving and resolving a record
\* that contains one neither panics nor fails, and no source lookup is made
\* for the field even when it declares candidate keys.
C18_IgnoredFieldSkipped ==
    /\ record.pc # "panic"
    /\ (record.pc = "field" /\ field.is_ignore) => loaded = None

------------------------------------------------------------------------------
(* Properties of a field: errors and defaults *)

\* the keys an error message lists, in the order it lists them
ListedKeys(msg) ==
    LET items == Split(msg, <<",", " ">>)
    IN  [i \in DOMAIN items |-> SubSeq(items[i], 2, Len(items[i]) - 1)]

C20_OptionalDefaultIsSome ==
    (/\ pc = "done"
     /\ field.optional
     /\ field.default \in {"Lit", "Call"}
     /\ AbsentEverywhere) =>
        result = Ok(Some(DeclaredDefault(field.ty)))

------------------------------------------------------------------------------
(* Properties of a field: the collection delimiter *)

\* the field was written with `delimiter` attributes
HasMetas == "metas" \in DOMAIN field

\* the derive accepted the field's attributes and generated its call
Accepted == pc \notin {"attrs", "rejected", "idle"}

\* C21: the collection delimiter of a field is never "=" and never empty at
\* resolve time: a field whose delimiter attribute is "=" or the empty string
\* is rejected when the schema is built, and a field without delimiter
\* attribute splits its collections on ",".
C21_DelimiterNeverReserved ==
    /\ Accepted => DelimiterUsed \notin {<<"=">>, <<>>}
    /\ (HasMetas /\ pc # "attrs" /\ \E i \in DOMAIN field.metas : field.metas[i] \in {<<"=">>, <<>>})
          => pc = "rejected"
    /\ (HasMetas /\ pc # "attrs" /\ field.metas = <<>>) => Accepted /\ DelimiterUsed = <<",">>
    /\ (HasMetas /\ Loaded /\ field.metas = <<>> /\ field.ty = "vec") =>
          /\ EnvVar(NameA) = Present(<<"5", ",", "0">>) => loaded.ok /\ loaded.val = Some(<<5, 0>>)
          /\ EnvVar(NameA) = Present(<<"5", ";", "0">>) => loaded = Err(UnexpectedValueType(<<"5", ";", "0">>))

\* a field written with `delimiter = "="` is rejected by the derive
C21_Witness ==
    /\ HasMetas
    /\ field.metas = <<(<<"=">>)>>
    /\ pc = "rejected"

------------------------------------------------------------------------------
(* Properties of repeated resolution *)

------------------------------------------------------------------------------
(* Properties of a derived enum: schema construction and variant order *)

\* the derive accepted the enum and generated its calls
EnumAccepted == mode.pc \notin {"derive", "rejected"}

\* name number j of variant number i, as the discriminant is compared with it
ResolvedName(i, j) ==
    LET v == mode.variants[i]
    IN  rename(c_attrs, get_names(v)[j], v.no_prefix, v.no_suffix)

\* every <<variant, name>> position of the enum
NamePositions ==
    UNION {{<<i, j>> : j \in DOMAIN get_names(mode.variants[i])} : i \in DOMAIN mode.variants}

\* C23: the derive rejects every enum in which two variant names (rename,
\* alias or identifier, of one variant or of two) are equal under the naming
\* policy, so a discriminant equals a resolved name of at most one variant.
C23_CollidingNamesRejected ==
    EnumAccepted =>
        /\ \A p, q \in NamePositions : p # q => ResolvedName(p[1], p[2]) # ResolvedName(q[1], q[2])
        /\ DiscriminantFound => Cardinality({i \in DOMAIN mode.variants : Matches(i)}) <= 1

\* the variants whose resolved names contain the discriminant
Matching == {i \in DOMAIN mode.variants : Matches(i)}

\* C24: variants are tested in declaration order and resolution returns at
\* the first variant whose resolved names contain the discriminant: only
\* that variant's payload is resolved, and that variant is the result.
C24_FirstMatchReturns ==
    (EnumDone /\ DiscriminantFound /\ Matching # {}) =>
        /\ mode.resolved = <<Min(Matching)>>
        /\ ResolvesTo(Min(Matching))

\* no two names of the enum are equal under the naming policy
NamesDistinct ==
    \A p, q \in NamePositions : p # q => ResolvedName(p[1], p[2]) # ResolvedName(q[1], q[2])

\* C25: the derive rejects an enum with more than one variant marked default,
\* so every enum that is resolved has at most one default variant, and the
\* default call is that variant's.
C25_SingleDefaultVariant ==
    /\ (mode.pc # "derive" /\ Cardinality(DefaultVariants) > 1) => mode.pc = "rejected"
    /\ EnumAccepted =>
          /\ Cardinality(DefaultVariants) <= 1
          /\ mode.default_call.some <=> DefaultVariants # {}
          /\ mode.default_call.some => DefaultVariants = {mode.default_call.v}

\* an enum whose names are all distinct is rejected for its two default variants
C25_Witness ==
    /\ mode.pc = "rejected"
    /\ NamesDistinct
    /\ DefaultVariants = {1, 2}

------------------------------------------------------------------------------
(* Properties of a field: the resolver's states *)

\* the field's pipeline failed for a value that a source holds: the value
\* could not be parsed, or a validator rejected it
PipelineFailed ==
    \/ EnvUnparsable
    \/ Found /\ (RejectedBefore \/ RejectedAfter)

------------------------------------------------------------------------------
(* Properties of a field: when the hooks run *)

------------------------------------------------------------------------------
(* Properties of a field: invalid Unicode *)

\* the first declared key present in the environment holds invalid Unicode
EnvNotUnicode == AnyIn(envs, EnvHas) /\ EnvFirst.st = "NotUnicode"

\* C28: if the first declared key that exists in the environment holds bytes
\* that are not valid Unicode, the field fails with
\* RetrieveError::InvalidUnicode naming that key; the error is not replaced
\* by None, by a fallback-map value or by the default.
C28_InvalidUnicodeIsError ==
    (pc = "done" /\ EnvNotUnicode) =>
        result = Err(InvalidUnicode(Trim(envs[FirstIn(envs, EnvHas)])))

------------------------------------------------------------------------------
(* Properties of a derived record: the dotenv fallback *)

\* the keys a field of the record is resolved from
KeysOf(f) == IF f.is_nested THEN <<f.inner>> ELSE f.envs

\* the record configures a dotenv file, and the field's keys exist there only
OnlyInDotenv(f) ==
    /\ c_attrs.dotenv.some
    /\ \A i \in DOMAIN KeysOf(f) : EnvVar(KeysOf(f)[i]).st = "NotPresent"
    /\ \E i \in DOMAIN KeysOf(f) : KeysOf(f)[i] \in DOMAIN c_attrs.dotenv.v

\* the value of the first key of the field that the dotenv file holds
DotenvValue(f) ==
    LET keys == KeysOf(f)
        k    == keys[CHOOSE i \in DOMAIN keys :
                        /\ keys[i] \in DOMAIN c_attrs.dotenv.v
                        /\ \A j \in 1..(i - 1) : keys[j] \notin DOMAIN c_attrs.dotenv.v]
        v    == Decimal(c_attrs.dotenv.v[k])
    IN  IF f.is_nested THEN [api_port |-> v]
        ELSE IF f.optional THEN Some(v)
        ELSE IF f.parse_fn THEN v + 10
        ELSE v

\* C29: when the outermost record configures a dotenv fallback, its map is
\* consulted by every field of the record and by every nested resolution: a
\* field, nested or not, whose key exists only in the fallback map resolves
\* to the fallback value.
C29_DotenvReachesEveryField ==
    (record.pc = "field" /\ pc = "done" /\ ~field.is_ignore /\ OnlyInDotenv(field)) =>
        result = Ok(DotenvValue(field))

------------------------------------------------------------------------------
(* Properties of the sources *)

====
